---- MODULE Spec2Model ----
(***************************************************************************)
(* Model of nexustrader/exchange/bybit/schema.py: the stateful parts of    *)
(* the Bybit schema, BybitOrderBook (snapshot/delta price levels and the   *)
(* top-N view) and BybitTicker (snapshot/delta field merge).               *)
(*                                                                         *)
(* A decimal string of the wire format is a sequence of one-character      *)
(* strings; float() is modelled by parsing it.  A float is represented     *)
(* by the integer number of tenths it denotes (Scale = 10), which is exact *)
(* for every string the model feeds: digits with at most one fractional    *)
(* digit.                                                                  *)
(***************************************************************************)
EXTENDS Integers, Sequences, FiniteSets

VARIABLES
    bids,        \* BybitOrderBook.bids: price -> size
    asks,        \* BybitOrderBook.asks: price -> size
    msg,         \* the last order-book message handed to parse_orderbook_depth
    raised,      \* the exception that call raised, "none" when it returned
    ret,         \* what that call returns for each levels argument n: ret[n]
    preBids,     \* history: bids when that call started
    preAsks,     \* history: asks when that call started
    snapshotted, \* history: some snapshot has been applied without an exception
    nBook,       \* history: number of order-book messages handled
    ticker,      \* BybitTicker: the tracked fields
    tmsg,        \* the last ticker message handed to parse_ticker
    preTicker,   \* history: the tracked fields when that call started
    viewed,      \* the last _get_orderbook call made since the last message
    cur,         \* the last read of the ticker made since the last message
    coin,        \* a coin entry of a wallet message: the input of parse_to_balance
    balance      \* the Balance parse_to_balance made of it, or its exception

vars == <<bids, asks, msg, raised, ret, preBids, preAsks, snapshotted,
          nBook, ticker, tmsg, preTicker, viewed, cur, coin, balance>>
bookVars == <<bids, asks, msg, raised, ret, preBids, preAsks,
              snapshotted, nBook>>
tickerVars == <<ticker, tmsg, preTicker>>
balanceVars == <<coin, balance>>

(***************************************************************************)
(* Bounds of the model.                                                    *)
(***************************************************************************)
\* most (price, size) pairs one order-book message carries, both sides together
MaxEntries == 2
\* largest levels argument of parse_orderbook_depth and _get_orderbook
MaxLevels == 3
\* number of order-book messages handled in one run
MaxBookEvents == 2

(***************************************************************************)
(* float(str): decimal strings and their values.                           *)
(***************************************************************************)
Digits == <<"0", "1", "2", "3", "4", "5", "6", "7", "8", "9">>

IsDigit(c) == \E d \in 1..Len(Digits) : Digits[d] = c

DigitVal(c) == (CHOOSE d \in 1..Len(Digits) : Digits[d] = c) - 1

\* position of the decimal point in s, 0 when there is none
PointAt(s) ==
    IF \E i \in 1..Len(s) : s[i] = "."
    THEN CHOOSE i \in 1..Len(s) : s[i] = "." /\ \A j \in 1..(i - 1) : s[j] # "."
    ELSE 0

IntPart(s) == IF PointAt(s) = 0 THEN s ELSE SubSeq(s, 1, PointAt(s) - 1)

FracPart(s) == IF PointAt(s) = 0 THEN <<>> ELSE SubSeq(s, PointAt(s) + 1, Len(s))

\* the strings float() accepts, among those the model feeds: digits, then
\* optionally a point and at most one more digit; anything else is ValueError
IsNumeric(s) ==
    /\ Len(IntPart(s)) >= 1
    /\ \A i \in 1..Len(IntPart(s)) : IsDigit(IntPart(s)[i])
    /\ Len(FracPart(s)) <= 1
    /\ \A i \in 1..Len(FracPart(s)) : IsDigit(FracPart(s)[i])

RECURSIVE DigitsVal(_)
DigitsVal(s) ==
    IF s = <<>> THEN 0
    ELSE 10 * DigitsVal(SubSeq(s, 1, Len(s) - 1)) + DigitVal(s[Len(s)])

\* float(s) in tenths
float(s) ==
    10 * DigitsVal(IntPart(s))
        + (IF FracPart(s) = <<>> THEN 0 ELSE DigitVal(FracPart(s)[1]))

(***************************************************************************)
(* The messages fed to the order book.                                     *)
(***************************************************************************)
\* "99", "100" and "100.0": two prices, one of them spelled in two ways
PriceStrs == { <<"9", "9">>, <<"1", "0", "0">>, <<"1", "0", "0", ".", "0">> }

SizeStrs == { <<"0">>, <<"3">>, <<"5">> }

\* a string float() rejects
Malformed == <<"x">>

\* the [price, size] pairs of BybitWsOrderbookDepth.b and .a: the well-formed
\* ones, one with a malformed price and one with a malformed size
Entries ==
    (PriceStrs \X SizeStrs)
        \cup { <<Malformed, <<"5">>>>, <<<<"1", "0", "0">>, Malformed>> }

RECURSIVE SeqsUpTo(_, _)
SeqsUpTo(S, n) ==
    IF n = 0 THEN { <<>> }
    ELSE LET shorter == SeqsUpTo(S, n - 1)
         IN  shorter \cup { Append(q, e) : q \in shorter, e \in S }

BookTypes == {"snapshot", "delta", "other"}

\* BybitWsOrderbookDepthMsg: its type, and b and a of its data
BookMsgs ==
    UNION { { [type |-> t, b |-> bs, a |-> as] :
                t \in BookTypes, as \in SeqsUpTo(Entries, MaxEntries - Len(bs)) } :
            bs \in SeqsUpTo(Entries, MaxEntries) }

NoMsg == [type |-> "init", b |-> <<>>, a |-> <<>>]

(***************************************************************************)
(* dict operations.                                                        *)
(***************************************************************************)
EmptyDict == [k \in {} |-> 0]

\* d[k] = v
SetItem(d, k, v) == [x \in DOMAIN d \cup {k} |-> IF x = k THEN v ELSE d[x]]

\* d.pop(k) for a k that d holds
Pop(d, k) == [x \in DOMAIN d \ {k} |-> d[x]]

(***************************************************************************)
(* BybitOrderBook._handle_snapshot                                         *)
(***************************************************************************)
\* a faulty insertion loop: it clears the dict before every assignment, so
\* only the last pair stays
RECURSIVE InsertKeepsLast(_, _)
InsertKeepsLast(d, entries) ==
    IF entries = <<>> THEN [dict |-> d, raised |-> "none"]
    ELSE LET price == Head(entries)[1]
             size == Head(entries)[2]
         IN  IF ~IsNumeric(size) \/ ~IsNumeric(price)
             THEN [dict |-> d, raised |-> "ValueError"]
             ELSE InsertKeepsLast(SetItem(EmptyDict, float(price), float(size)),
                                  Tail(entries))

\* for price, size in entries: d[float(price)] = float(size)
RECURSIVE InsertAll(_, _)
InsertAll(d, entries) ==
    IF entries = <<>> THEN [dict |-> d, raised |-> "none"]
    ELSE LET price == Head(entries)[1]
             size == Head(entries)[2]
         IN  IF ~IsNumeric(size) \/ ~IsNumeric(price)
             THEN [dict |-> d, raised |-> "ValueError"]
             ELSE InsertAll(SetItem(d, float(price), float(size)), Tail(entries))

\* a faulty _handle_snapshot: it never clears a side
SnapshotWithoutClear(b0, a0, data) ==
    LET rb == InsertAll(b0, data.b)
        ra == IF rb.raised = "none" THEN InsertAll(a0, data.a)
              ELSE [dict |-> a0, raised |-> rb.raised]
    IN  [bids |-> rb.dict, asks |-> ra.dict, raised |-> ra.raised]

\* a faulty _handle_snapshot: it clears both sides whatever the lists are
SnapshotClearsBoth(b0, a0, data) ==
    LET rb == InsertAll(EmptyDict, data.b)
        ra == IF rb.raised = "none" THEN InsertAll(EmptyDict, data.a)
              ELSE [dict |-> EmptyDict, raised |-> rb.raised]
    IN  [bids |-> rb.dict, asks |-> ra.dict, raised |-> ra.raised]

\* both sides are cleared before either loop runs, so an exception in the
\* bids loop leaves asks cleared and not refilled
_handle_snapshot(b0, a0, data) ==
    LET b1 == IF data.b # <<>> THEN EmptyDict ELSE b0
        a1 == IF data.a # <<>> THEN EmptyDict ELSE a0
        rb == InsertAll(b1, data.b)
        ra == IF rb.raised = "none" THEN InsertAll(a1, data.a)
              ELSE [dict |-> a1, raised |-> rb.raised]
    IN  [bids |-> rb.dict, asks |-> ra.dict, raised |-> ra.raised]

(***************************************************************************)
(* BybitOrderBook._handle_delta                                            *)
(***************************************************************************)
\* for price, size in entries:
\*     if float(size) == 0: d.pop(float(price))
\*     else: d[float(price)] = float(size)
RECURSIVE ApplyAll(_, _)
ApplyAll(d, entries) ==
    IF entries = <<>> THEN [dict |-> d, raised |-> "none"]
    ELSE LET price == Head(entries)[1]
             size == Head(entries)[2]
         IN  IF ~IsNumeric(size) \/ ~IsNumeric(price)
             THEN [dict |-> d, raised |-> "ValueError"]
             ELSE IF float(size) = 0
             THEN IF float(price) \in DOMAIN d
                  THEN ApplyAll(Pop(d, float(price)), Tail(entries))
                  ELSE [dict |-> d, raised |-> "KeyError"]
             ELSE ApplyAll(SetItem(d, float(price), float(size)), Tail(entries))

\* a faulty _handle_delta: it assigns a size of 0 like any other size
DeltaStoresZero(b0, a0, data) ==
    LET rb == InsertAll(b0, data.b)
        ra == IF rb.raised = "none" THEN InsertAll(a0, data.a)
              ELSE [dict |-> a0, raised |-> rb.raised]
    IN  [bids |-> rb.dict, asks |-> ra.dict, raised |-> ra.raised]

_handle_delta(b0, a0, data) ==
    LET rb == ApplyAll(b0, data.b)
        ra == IF rb.raised = "none" THEN ApplyAll(a0, data.a)
              ELSE [dict |-> a0, raised |-> rb.raised]
    IN  [bids |-> rb.dict, asks |-> ra.dict, raised |-> ra.raised]

(***************************************************************************)
(* BybitOrderBook._get_orderbook                                           *)
(***************************************************************************)
\* sorted(d.items()): ascending by price, the keys of a dict being distinct
RECURSIVE sorted(_)
sorted(d) ==
    IF DOMAIN d = {} THEN <<>>
    ELSE LET lo == CHOOSE k \in DOMAIN d : \A x \in DOMAIN d : k <= x
         IN  <<[price |-> lo, size |-> d[lo]]>> \o sorted(Pop(d, lo))

\* sorted(d.items(), reverse=True)
RECURSIVE sortedReverse(_)
sortedReverse(d) ==
    IF DOMAIN d = {} THEN <<>>
    ELSE LET hi == CHOOSE k \in DOMAIN d : \A x \in DOMAIN d : k >= x
         IN  <<[price |-> hi, size |-> d[hi]]>> \o sortedReverse(Pop(d, hi))

\* s[:n] for n >= 0
Take(s, n) == SubSeq(s, 1, IF n < Len(s) THEN n ELSE Len(s))

\* a faulty _get_orderbook: it sorts the bids ascending
OrderbookBidsAscending(b, a, n) ==
    [bids |-> Take(sorted(b), n), asks |-> Take(sorted(a), n)]

\* a faulty _get_orderbook: it lists a level of price 0 and size 0 for a side
\* that holds nothing
OrderbookPadsEmpty(b, a, n) ==
    [bids |-> IF DOMAIN b = {} THEN <<[price |-> 0, size |-> 0]>>
              ELSE Take(sortedReverse(b), n),
     asks |-> IF DOMAIN a = {} THEN <<[price |-> 0, size |-> 0]>>
              ELSE Take(sorted(a), n)]

_get_orderbook(b, a, n) ==
    [bids |-> Take(sortedReverse(b), n), asks |-> Take(sorted(a), n)]

\* the value of ret when nothing was returned
NoView == [n \in 0..MaxLevels |-> "nothing"]

\* no read made since the last message
NoRead == [done |-> FALSE]

(***************************************************************************)
(* BybitOrderBook.parse_orderbook_depth                                    *)
(***************************************************************************)
\* a faulty parse_orderbook_depth: it hands a message of any other type to
\* _handle_delta
ParseOtherAsDelta(m) ==
    /\ nBook < MaxBookEvents
    /\ \E r \in { IF m.type = "snapshot" THEN _handle_snapshot(bids, asks, m)
                  ELSE _handle_delta(bids, asks, m) } :
           /\ bids' = r.bids
           /\ asks' = r.asks
           /\ raised' = r.raised
           /\ ret' = IF r.raised = "none"
                     THEN [n \in 0..MaxLevels |-> _get_orderbook(r.bids, r.asks, n)]
                     ELSE NoView
           /\ snapshotted' = (snapshotted \/ (m.type = "snapshot" /\ r.raised = "none"))
    /\ msg' = m
    /\ preBids' = bids
    /\ preAsks' = asks
    /\ nBook' = nBook + 1
    /\ viewed' = NoRead
    /\ UNCHANGED <<tickerVars, cur, balanceVars>>

\* a faulty parse_orderbook_depth: it takes the view before it handles the
\* message
ParseViewsBeforeEvent(m) ==
    /\ nBook < MaxBookEvents
    /\ \E r \in { IF m.type = "snapshot" THEN _handle_snapshot(bids, asks, m)
                  ELSE IF m.type = "delta" THEN _handle_delta(bids, asks, m)
                  ELSE [bids |-> bids, asks |-> asks, raised |-> "none"] } :
           /\ bids' = r.bids
           /\ asks' = r.asks
           /\ raised' = r.raised
           /\ ret' = IF r.raised = "none"
                     THEN [n \in 0..MaxLevels |-> _get_orderbook(bids, asks, n)]
                     ELSE NoView
           /\ snapshotted' = (snapshotted \/ (m.type = "snapshot" /\ r.raised = "none"))
    /\ msg' = m
    /\ preBids' = bids
    /\ preAsks' = asks
    /\ nBook' = nBook + 1
    /\ viewed' = NoRead
    /\ UNCHANGED <<tickerVars, cur, balanceVars>>

parse_orderbook_depth(m) ==
    /\ nBook < MaxBookEvents
    /\ \E r \in { IF m.type = "snapshot" THEN _handle_snapshot(bids, asks, m)
                  ELSE IF m.type = "delta" THEN _handle_delta(bids, asks, m)
                  ELSE [bids |-> bids, asks |-> asks, raised |-> "none"] } :
           /\ bids' = r.bids
           /\ asks' = r.asks
           /\ raised' = r.raised
           /\ ret' = IF r.raised = "none"
                     THEN [n \in 0..MaxLevels |-> _get_orderbook(r.bids, r.asks, n)]
                     ELSE NoView
           /\ snapshotted' = (snapshotted \/ (m.type = "snapshot" /\ r.raised = "none"))
    /\ msg' = m
    /\ preBids' = bids
    /\ preAsks' = asks
    /\ nBook' = nBook + 1
    /\ viewed' = NoRead
    /\ UNCHANGED <<tickerVars, cur, balanceVars>>

(***************************************************************************)
(* BybitTicker                                                             *)
(***************************************************************************)
None == "None"

\* the values a str | None field of BybitWsTicker takes: two for every field,
\* a third one for markPrice and fundingRate
TickerVals == {None, "1"}

MoreTickerVals == TickerVals \cup {"2"}

\* BybitWsTicker, the fields the handlers read and lastPrice
TickerData ==
    [symbol : {"BTCUSDT"}, lastPrice : TickerVals, markPrice : MoreTickerVals,
     indexPrice : TickerVals, nextFundingTime : TickerVals,
     fundingRate : MoreTickerVals]

TickerTypes == {"snapshot", "delta", "other"}

\* BybitWsTickerMsg
TickerMsgs == [type : TickerTypes, data : TickerData]

NoTickerMsg == [type |-> "init"]

\* BybitTicker(): every field defaults to None
NoTicker ==
    [symbol |-> None, markPrice |-> None, indexPrice |-> None,
     nextFundingTime |-> None, fundingRate |-> None]

\* a faulty handle_snapshot: it skips the fields the message lacks
SnapshotKeepsMissing(t, data) ==
    [symbol |-> data.symbol,
     markPrice |-> IF data.markPrice # None THEN data.markPrice ELSE t.markPrice,
     indexPrice |-> IF data.indexPrice # None THEN data.indexPrice ELSE t.indexPrice,
     nextFundingTime |-> IF data.nextFundingTime # None THEN data.nextFundingTime
                         ELSE t.nextFundingTime,
     fundingRate |-> IF data.fundingRate # None THEN data.fundingRate
                     ELSE t.fundingRate]

handle_snapshot(t, data) ==
    [symbol |-> data.symbol,
     markPrice |-> data.markPrice,
     indexPrice |-> data.indexPrice,
     nextFundingTime |-> data.nextFundingTime,
     fundingRate |-> data.fundingRate]

\* a faulty handle_delta: it stores nextFundingTime as the funding rate
DeltaMixesFunding(t, data) ==
    [symbol |-> t.symbol,
     markPrice |-> IF data.markPrice # None THEN data.markPrice ELSE t.markPrice,
     indexPrice |-> IF data.indexPrice # None THEN data.indexPrice ELSE t.indexPrice,
     nextFundingTime |-> IF data.nextFundingTime # None THEN data.nextFundingTime
                         ELSE t.nextFundingTime,
     fundingRate |-> IF data.fundingRate # None THEN data.nextFundingTime
                     ELSE t.fundingRate]

\* a faulty handle_delta: a message that carries markPrice also stores its
\* indexPrice, carried or not
DeltaResetsIndex(t, data) ==
    [symbol |-> t.symbol,
     markPrice |-> IF data.markPrice # None THEN data.markPrice ELSE t.markPrice,
     indexPrice |-> IF data.indexPrice # None \/ data.markPrice # None
                    THEN data.indexPrice ELSE t.indexPrice,
     nextFundingTime |-> IF data.nextFundingTime # None THEN data.nextFundingTime
                         ELSE t.nextFundingTime,
     fundingRate |-> IF data.fundingRate # None THEN data.fundingRate
                     ELSE t.fundingRate]

\* a faulty handle_delta: it stores the funding rate without the None test
DeltaClearsFundingRate(t, data) ==
    [symbol |-> t.symbol,
     markPrice |-> IF data.markPrice # None THEN data.markPrice ELSE t.markPrice,
     indexPrice |-> IF data.indexPrice # None THEN data.indexPrice ELSE t.indexPrice,
     nextFundingTime |-> IF data.nextFundingTime # None THEN data.nextFundingTime
                         ELSE t.nextFundingTime,
     fundingRate |-> data.fundingRate]

handle_delta(t, data) ==
    [symbol |-> t.symbol,
     markPrice |-> IF data.markPrice # None THEN data.markPrice ELSE t.markPrice,
     indexPrice |-> IF data.indexPrice # None THEN data.indexPrice ELSE t.indexPrice,
     nextFundingTime |-> IF data.nextFundingTime # None THEN data.nextFundingTime
                         ELSE t.nextFundingTime,
     fundingRate |-> IF data.fundingRate # None THEN data.fundingRate
                     ELSE t.fundingRate]

parse_ticker(m) ==
    /\ ticker' = IF m.type = "snapshot" THEN handle_snapshot(ticker, m.data)
                 ELSE IF m.type = "delta" THEN handle_delta(ticker, m.data)
                 ELSE ticker
    /\ tmsg' = m
    /\ preTicker' = ticker
    /\ cur' = NoRead
    /\ UNCHANGED <<bookVars, viewed, balanceVars>>

(***************************************************************************)
(* Reads between messages.                                                 *)
(***************************************************************************)
\* a faulty _get_orderbook: it pops the levels it returns
ViewDrains(n) ==
    LET v == _get_orderbook(bids, asks, n)
    IN  /\ viewed' = [done |-> TRUE, levels |-> n, ret |-> v]
        /\ bids' = [p \in DOMAIN bids \ { v.bids[i].price : i \in 1..Len(v.bids) }
                       |-> bids[p]]
        /\ asks' = [p \in DOMAIN asks \ { v.asks[i].price : i \in 1..Len(v.asks) }
                       |-> asks[p]]
        /\ UNCHANGED <<msg, raised, ret, preBids, preAsks, snapshotted, nBook,
                       tickerVars, cur, balanceVars>>

\* book._get_orderbook(n), called on its own
View(n) ==
    /\ viewed' = [done |-> TRUE, levels |-> n, ret |-> _get_orderbook(bids, asks, n)]
    /\ UNCHANGED <<bookVars, tickerVars, cur, balanceVars>>

\* a read of the BybitTicker object: its attributes as they are
Current ==
    /\ cur' = [done |-> TRUE, ret |-> ticker]
    /\ UNCHANGED <<bookVars, tickerVars, viewed, balanceVars>>

\* the value the ticker tracks for a field of the message: the attribute of
\* that name, and None for a field BybitTicker has no attribute for
Tracked(t, f) == IF f \in DOMAIN t THEN t[f] ELSE None

(***************************************************************************)
(* Wallet balances: Decimal(str), Decimal subtraction and the two          *)
(* parse_to_balance methods.  A Decimal is the triple Python keeps: a      *)
(* sign (0 or 1), the digits of the coefficient and an exponent of ten.    *)
(***************************************************************************)
\* the precision of the default decimal context, which schema.py never changes
Prec == 28

Zeros(n) == [i \in 1..n |-> 0]

Larger(x, y) == IF x > y THEN x ELSE y

\* the digits without their leading zeros, one digit kept
StripZeros(d) ==
    IF \A i \in 1..Len(d) : d[i] = 0 THEN <<0>>
    ELSE SubSeq(d, CHOOSE i \in 1..Len(d) :
                       d[i] # 0 /\ \A j \in 1..(i - 1) : d[j] = 0,
                Len(d))

Unsigned(s) == IF s # <<>> /\ s[1] \in {"-", "+"} THEN Tail(s) ELSE s

\* the strings Decimal() accepts, among those the model feeds: an optional
\* sign, digits with an optional point, at least one digit; anything else is
\* decimal.InvalidOperation
IsDecimal(s) ==
    LET u == Unsigned(s)
    IN  /\ Len(IntPart(u)) + Len(FracPart(u)) >= 1
        /\ \A i \in 1..Len(IntPart(u)) : IsDigit(IntPart(u)[i])
        /\ \A i \in 1..Len(FracPart(u)) : IsDigit(FracPart(u)[i])

DigitsOf(s) == [i \in 1..Len(s) |-> DigitVal(s[i])]

\* Decimal(s): exact, whatever the number of digits
Decimal(s) ==
    LET u == Unsigned(s)
    IN  [sign |-> IF s[1] = "-" THEN 1 ELSE 0,
         int |-> StripZeros(DigitsOf(IntPart(u) \o FracPart(u))),
         exp |-> 0 - Len(FracPart(u))]

\* the coefficient of x written with the exponent e <= x.exp
Coeff(x, e) == x.int \o Zeros(x.exp - e)

Pad(d, n) == Zeros(n - Len(d)) \o d

\* the carry into digit i of p + q + carry, digit Len(p) being the last
CarryIn(p, q, carry, i) ==
    IF \/ \E j \in (i + 1)..Len(p) :
             /\ p[j] + q[j] >= 10
             /\ \A k \in (i + 1)..(j - 1) : p[k] + q[k] = 9
       \/ /\ carry = 1
          /\ \A k \in (i + 1)..Len(p) : p[k] + q[k] = 9
    THEN 1 ELSE 0

\* p + q + carry for digit sequences of one length
AddMag(p, q, carry) ==
    LET low == [i \in 1..Len(p) |-> (p[i] + q[i] + CarryIn(p, q, carry, i)) % 10]
    IN  IF CarryIn(p, q, carry, 0) = 1 THEN <<1>> \o low ELSE low

\* the borrow from digit i of p - q
BorrowIn(p, q, i) ==
    IF \E j \in (i + 1)..Len(p) :
          /\ p[j] < q[j]
          /\ \A k \in (i + 1)..(j - 1) : p[k] = q[k]
    THEN 1 ELSE 0

\* p - q for digit sequences of one length, p >= q
SubMag(p, q) ==
    [i \in 1..Len(p) |-> (p[i] - q[i] - BorrowIn(p, q, i) + 10) % 10]

MagLess(p, q) ==
    \E i \in 1..Len(p) : p[i] < q[i] /\ \A j \in 1..(i - 1) : p[j] = q[j]

\* x + y with every digit kept
ExactAdd(x, y) ==
    LET e == IF x.exp < y.exp THEN x.exp ELSE y.exp
        n == Larger(Len(Coeff(x, e)), Len(Coeff(y, e)))
        p == Pad(Coeff(x, e), n)
        q == Pad(Coeff(y, e), n)
    IN  IF x.sign = y.sign
        THEN [sign |-> x.sign, int |-> StripZeros(AddMag(p, q, 0)), exp |-> e]
        ELSE IF p = q THEN [sign |-> 0, int |-> <<0>>, exp |-> e]
        ELSE IF MagLess(p, q)
        THEN [sign |-> y.sign, int |-> StripZeros(SubMag(q, p)), exp |-> e]
        ELSE [sign |-> x.sign, int |-> StripZeros(SubMag(p, q)), exp |-> e]

Negate(x) == [x EXCEPT !.sign = 1 - @]

\* the rounding of a result to the context: a coefficient of more than Prec
\* digits is cut to Prec digits, ROUND_HALF_EVEN
Fix(x) ==
    IF Len(x.int) <= Prec THEN x
    ELSE LET k == Len(x.int) - Prec
             kept == SubSeq(x.int, 1, Prec)
             rest == SubSeq(x.int, Prec + 1, Len(x.int))
             up == \/ rest[1] > 5
                   \/ /\ rest[1] = 5
                      /\ \/ \E i \in 2..k : rest[i] # 0
                         \/ kept[Prec] % 2 = 1
             inc == IF up THEN AddMag(kept, Zeros(Prec), 1) ELSE kept
         IN  IF Len(inc) > Prec
             THEN [sign |-> x.sign, int |-> SubSeq(inc, 1, Prec), exp |-> x.exp + k + 1]
             ELSE [sign |-> x.sign, int |-> inc, exp |-> x.exp + k]

\* x - y of two Decimals: Decimal.__sub__ under the default context
Subtract(x, y) == Fix(ExactAdd(x, Negate(y)))

\* BybitCoinBalance.parse_to_balance
BybitCoinBalance_parse_to_balance(c) ==
    IF ~IsDecimal(c.locked) THEN [raised |-> "InvalidOperation"]
    ELSE IF ~IsDecimal(c.walletBalance) THEN [raised |-> "InvalidOperation"]
    ELSE [raised |-> "none",
          asset |-> c.coin,
          locked |-> Decimal(c.locked),
          free |-> Subtract(Decimal(c.walletBalance), Decimal(c.locked))]

\* BybitWsAccountWalletCoin.parse_to_balance
BybitWsAccountWalletCoin_parse_to_balance(c) ==
    IF ~IsDecimal(c.walletBalance) THEN [raised |-> "InvalidOperation"]
    ELSE IF ~IsDecimal(c.locked) THEN [raised |-> "InvalidOperation"]
    ELSE [raised |-> "none",
          asset |-> c.coin,
          locked |-> Decimal(c.locked),
          free |-> Subtract(Decimal(c.walletBalance), Decimal(c.locked))]

\* the walletBalance strings fed: 18 decimal places, 18 and 28 integer
\* digits, small values, a negative one and one Decimal() rejects
WalletStrs ==
    { <<"1", "0", "0", ".", "1", "2", "3", "4", "5", "6", "7", "8",
        "9", "0", "1", "2", "3", "4", "5", "6", "7", "8">>,
      <<"1", "2", "3", "4", "5", "6", "7", "8", "9", "0", "1", "2",
        "3", "4", "5", "6", "7", "8">>,
      <<"1", "2", "3", "4", "5", "6", "7", "8", "9", "0", "1", "2",
        "3", "4", "5", "6", "7", "8", "9", "0", "1", "2", "3", "4",
        "5", "6", "7", "7">>,
      <<"5">>,
      <<"0">>,
      <<"0", ".", "0", "0", "0", "0", "0", "0", "0", "0", "0", "0",
        "0", "0", "0", "0", "0", "0", "0", "1">>,
      <<"-", "1">>,
      <<"x">> }

\* the locked strings fed
LockedStrs ==
    { <<"0", ".", "0", "0", "0", "0", "0", "0", "0", "0", "0", "0",
        "0", "0", "0", "0", "0", "0", "0", "1">>,
      <<"0">>,
      <<"5">>,
      <<"5", ".", "0">>,
      <<"-", "1">>,
      <<"0", ".", "5">>,
      <<"-", "0", ".", "5">>,
      <<"1", "2", "3", "4", "5", "6", "7", "8", "9", "0", "1", "2",
        "3", "4", "5", "6", "7", "8">>,
      <<"x">> }

\* the coin entries of wallet messages: the three fields parse_to_balance reads
Coins == [coin : {"BTC", "USDT"}, walletBalance : WalletStrs, locked : LockedStrs]

NoCoin == [coin |-> "none"]

NoBalance == [by |-> "none"]

\* BybitWalletBalance.parse_to_balances on a wallet of the one coin entry
BybitWalletBalance_parse_to_balances ==
    /\ balance' = [by |-> "rest", out |-> BybitCoinBalance_parse_to_balance(coin)]
    /\ UNCHANGED <<coin, bookVars, tickerVars, viewed, cur>>

\* BybitWsAccountWallet.parse_to_balances on a wallet of the one coin entry
BybitWsAccountWallet_parse_to_balances ==
    /\ balance' = [by |-> "ws", out |-> BybitWsAccountWalletCoin_parse_to_balance(coin)]
    /\ UNCHANGED <<coin, bookVars, tickerVars, viewed, cur>>

(***************************************************************************)
(* Specifications.                                                         *)
(***************************************************************************)
Init ==
    /\ bids = EmptyDict
    /\ asks = EmptyDict
    /\ msg = NoMsg
    /\ raised = "none"
    /\ ret = NoView
    /\ preBids = EmptyDict
    /\ preAsks = EmptyDict
    /\ snapshotted = FALSE
    /\ nBook = 0
    /\ ticker = NoTicker
    /\ tmsg = NoTickerMsg
    /\ preTicker = NoTicker
    /\ viewed = NoRead
    /\ cur = NoRead
    /\ coin = NoCoin
    /\ balance = NoBalance

\* a coin entry of a wallet message is at hand, nothing else has happened
InitBalance ==
    /\ bids = EmptyDict
    /\ asks = EmptyDict
    /\ msg = NoMsg
    /\ raised = "none"
    /\ ret = NoView
    /\ preBids = EmptyDict
    /\ preAsks = EmptyDict
    /\ snapshotted = FALSE
    /\ nBook = 0
    /\ ticker = NoTicker
    /\ tmsg = NoTickerMsg
    /\ preTicker = NoTicker
    /\ viewed = NoRead
    /\ cur = NoRead
    /\ coin \in Coins
    /\ balance = NoBalance

NextBalance ==
    \/ BybitWalletBalance_parse_to_balances
    \/ BybitWsAccountWallet_parse_to_balances

\* the two balance parsers, each applied to a coin entry
SpecBalance == InitBalance /\ [][NextBalance]_vars

NextBook == \E m \in BookMsgs : parse_orderbook_depth(m)

\* the order book alone
SpecBook == Init /\ [][NextBook]_vars

\* the messages of the end-to-end scenario and their variations: bids at
\* "100" and "99", asks at "101"
ScenarioBidEntries == { <<"1", "0", "0">>, <<"9", "9">> } \X { <<"5">>, <<"3">>, <<"0">> }

ScenarioAskEntries == { <<"1", "0", "1">> } \X { <<"2">>, <<"0">> }

ScenarioMsgs ==
    [type : {"snapshot", "delta"},
     b : SeqsUpTo(ScenarioBidEntries, MaxEntries),
     a : SeqsUpTo(ScenarioAskEntries, 1)]

NextScenario == \E m \in ScenarioMsgs : parse_orderbook_depth(m)

\* the order book alone, fed the scenario's messages
SpecScenario == Init /\ [][NextScenario]_vars

\* most pairs one order-book message carries where reads come between the
\* messages
MaxReadEntries == 1

ReadBookMsgs == { m \in BookMsgs : Len(m.b) + Len(m.a) <= MaxReadEntries }

\* the ticker messages that carry neither lastPrice nor nextFundingTime
ReadTickerMsgs ==
    { m \in TickerMsgs : m.data.lastPrice = None /\ m.data.nextFundingTime = None }

\* The book and the ticker are separate objects that share no attribute: a
\* run feeds messages to one of them, and reads both at any time.
NextRead ==
    \/ \E m \in ReadBookMsgs : tmsg = NoTickerMsg /\ parse_orderbook_depth(m)
    \/ \E n \in 0..MaxLevels : View(n)
    \/ \E m \in ReadTickerMsgs : nBook = 0 /\ parse_ticker(m)
    \/ Current

\* messages and reads of the order book and of the ticker
SpecRead == Init /\ [][NextRead]_vars

NextTicker == \E m \in TickerMsgs : parse_ticker(m)

\* the ticker alone, over message sequences of any length
SpecTicker == Init /\ [][NextTicker]_vars

(***************************************************************************)
(* Vocabulary of the order-book properties.                                *)
(***************************************************************************)
WellFormed(entries) ==
    \A i \in 1..Len(entries) : IsNumeric(entries[i][1]) /\ IsNumeric(entries[i][2])

\* the prices a well-formed list carries
PricesOf(entries) == { float(entries[i][1]) : i \in 1..Len(entries) }

\* the size of the last pair of a well-formed list that carries price p
LastSize(entries, p) ==
    LET last == CHOOSE i \in 1..Len(entries) :
                    /\ float(entries[i][1]) = p
                    /\ \A j \in (i + 1)..Len(entries) : float(entries[j][1]) # p
    IN  float(entries[last][2])

\* every pair of the list is a zero-size removal of a price d does not hold
OnlyAbsentRemovals(entries, d) ==
    /\ WellFormed(entries)
    /\ \A i \in 1..Len(entries) :
          float(entries[i][2]) = 0 /\ float(entries[i][1]) \notin DOMAIN d

\* d maps exactly the prices of the list, each to what pair i of the list says
MapsEveryPair(d, entries) ==
    /\ DOMAIN d = PricesOf(entries)
    /\ \A i \in 1..Len(entries) : d[float(entries[i][1])] = float(entries[i][2])

\* d maps exactly the prices of the list, each to the size of its last pair
MapsLastPairs(d, entries) ==
    /\ DOMAIN d = PricesOf(entries)
    /\ \A p \in DOMAIN d : d[p] = LastSize(entries, p)

\* the prices the list does not carry are in d1 what they were in d0
KeepsUnlisted(d0, d1, entries) ==
    \A p \in (DOMAIN d0 \cup DOMAIN d1) \ PricesOf(entries) :
        p \in DOMAIN d0 /\ p \in DOMAIN d1 /\ d1[p] = d0[p]

\* every price whose last pair in the list has a size other than 0 is in d,
\* mapped to that size
UpsertsListed(d, entries) ==
    \A p \in PricesOf(entries) :
        LastSize(entries, p) # 0 => p \in DOMAIN d /\ d[p] = LastSize(entries, p)

Unchanged == bids = preBids /\ asks = preAsks

(***************************************************************************)
(* Order-book claims.                                                      *)
(***************************************************************************)
\* C1: on an initialized book, a delta made only of zero-size pairs whose
\* prices their side does not hold raises nothing and leaves bids and asks
\* as they were.
C1_AbsentRemovalIsNoOp ==
    ( /\ msg.type = "delta"
      /\ snapshotted
      /\ Len(msg.b) + Len(msg.a) >= 1
      /\ OnlyAbsentRemovals(msg.b, preBids)
      /\ OnlyAbsentRemovals(msg.a, preAsks) )
    => raised = "none" /\ Unchanged

\* C2: every size stored in bids and in asks is strictly positive.
C2_SizesPositive ==
    /\ \A p \in DOMAIN bids : bids[p] > 0
    /\ \A p \in DOMAIN asks : asks[p] > 0

\* C3 as stated: after a snapshot, a side whose list is non-empty maps exactly
\* the prices the list carries, each pair's price to that pair's size.
C3_SnapshotMapsEveryPair ==
    (msg.type = "snapshot" /\ raised = "none")
    => /\ msg.b # <<>> => MapsEveryPair(bids, msg.b)
       /\ msg.a # <<>> => MapsEveryPair(asks, msg.a)

\* C3 as amended: after a snapshot, a side whose list is non-empty maps exactly
\* the prices the list carries, each to the size of the last pair that carries
\* it, and so holds no level from before the snapshot.
C3_SnapshotReplacesSide ==
    (msg.type = "snapshot" /\ raised = "none")
    => /\ msg.b # <<>> => MapsLastPairs(bids, msg.b)
       /\ msg.a # <<>> => MapsLastPairs(asks, msg.a)

\* C3 witness: a snapshot replaced bids that held a price it does not carry.
C3_Witness ==
    /\ msg.type = "snapshot"
    /\ raised = "none"
    /\ msg.b # <<>>
    /\ DOMAIN preBids \ PricesOf(msg.b) # {}

\* C4: a snapshot leaves a side whose list is empty as it was, also when it
\* replaces the other side.
C4_SnapshotKeepsEmptySide ==
    msg.type = "snapshot"
    => /\ msg.b = <<>> => bids = preBids
       /\ msg.a = <<>> => asks = preAsks

\* C4 witness: a snapshot with no bids replaced the asks and kept the bids it
\* found.
C4_Witness ==
    /\ msg.type = "snapshot"
    /\ msg.b = <<>>
    /\ msg.a # <<>>
    /\ raised = "none"
    /\ DOMAIN preBids # {}
    /\ asks # preAsks
    /\ bids = preBids

\* C5: a delta handed to a book that no snapshot has initialized is rejected
\* with UninitializedState and inserts nothing.
C5_DeltaBeforeSnapshotRejected ==
    (msg.type = "delta" /\ ~snapshotted)
    => raised = "UninitializedState" /\ Unchanged

\* C6: a snapshot or delta with a malformed price or size fails as a parse
\* error and leaves bids and asks as they were.
C6_MalformedChangesNothing ==
    ( /\ msg.type \in {"snapshot", "delta"}
      /\ ~(WellFormed(msg.b) /\ WellFormed(msg.a)) )
    => raised = "ValueError" /\ Unchanged

\* the levels of a view are levels of d
StoredIn(view, d) ==
    \A i \in 1..Len(view) : view[i].price \in DOMAIN d /\ view[i].size = d[view[i].price]

ViewPrices(view) == { view[i].price : i \in 1..Len(view) }

Smaller(x, y) == IF x < y THEN x ELSE y

\* C7: for every depth, the view lists min(depth, levels stored) levels of
\* each side, the bids strictly descending and the asks strictly ascending by
\* price, and no stored level left out is better than a listed one.
C7_ViewIsBestLevelsInOrder ==
    \A n \in 0..MaxLevels :
        LET v == _get_orderbook(bids, asks, n)
        IN  /\ Len(v.bids) = Smaller(n, Cardinality(DOMAIN bids))
            /\ Len(v.asks) = Smaller(n, Cardinality(DOMAIN asks))
            /\ StoredIn(v.bids, bids)
            /\ StoredIn(v.asks, asks)
            /\ \A i, j \in 1..Len(v.bids) : i < j => v.bids[i].price > v.bids[j].price
            /\ \A i, j \in 1..Len(v.asks) : i < j => v.asks[i].price < v.asks[j].price
            /\ \A p \in DOMAIN bids \ ViewPrices(v.bids) :
                  \A i \in 1..Len(v.bids) : p < v.bids[i].price
            /\ \A p \in DOMAIN asks \ ViewPrices(v.asks) :
                  \A i \in 1..Len(v.asks) : p > v.asks[i].price

\* C7 witness: both sides hold two levels, so that a depth of 1 leaves a
\* level out and a depth of 3 asks for more than is stored.
C7_Witness ==
    /\ Cardinality(DOMAIN bids) >= 2
    /\ Cardinality(DOMAIN asks) >= 2
    /\ MaxLevels > 2

\* C8: on an initialized book, a delta leaves every price it lists with a
\* size other than 0 mapped to that size on its side (the last pair deciding
\* for a price listed twice), and every price it does not list as it was.
C8_DeltaUpsertsListedOnly ==
    ( /\ msg.type = "delta"
      /\ snapshotted
      /\ WellFormed(msg.b)
      /\ WellFormed(msg.a) )
    => /\ UpsertsListed(bids, msg.b)
       /\ UpsertsListed(asks, msg.a)
       /\ KeepsUnlisted(preBids, bids, msg.b)
       /\ KeepsUnlisted(preAsks, asks, msg.a)

(***************************************************************************)
(* Ticker claims.                                                          *)
(***************************************************************************)
\* the five fields the specification says are tracked
FiveFields == {"lastPrice", "markPrice", "indexPrice", "nextFundingTime", "fundingRate"}

\* the four of them BybitTicker has an attribute for
FourFields == {"markPrice", "indexPrice", "nextFundingTime", "fundingRate"}

C11_DeltaKeepsFieldsNotCarried ==
    tmsg.type = "delta"
    => /\ \A f \in FourFields : tmsg.data[f] = None => ticker[f] = preTicker[f]
       /\ ticker.symbol = preTicker.symbol
       /\ ( /\ tmsg.data.markPrice # None
            /\ \A f \in FiveFields \ {"markPrice"} : tmsg.data[f] = None )
          => ticker = [preTicker EXCEPT !.markPrice = tmsg.data.markPrice]

\* C11 witness: a delta that carries markPrice alone changed it on a ticker
\* whose other three fields held values.
C11_Witness ==
    /\ tmsg.type = "delta"
    /\ tmsg.data.markPrice # None
    /\ \A f \in FiveFields \ {"markPrice"} : tmsg.data[f] = None
    /\ \A f \in FourFields : preTicker[f] # None
    /\ ticker.markPrice # preTicker.markPrice
    /\ \A f \in FourFields \ {"markPrice"} : ticker[f] = preTicker[f]

\* C18: a tracked field that holds a value becomes None in one step only by a
\* snapshot that does not carry it; no delta and no message of another type
\* clears it.
C18_OnlySnapshotClears ==
    [][ \A f \in FourFields :
          (ticker[f] # None /\ ticker'[f] = None)
          => (tmsg'.type = "snapshot" /\ tmsg'.data[f] = None) ]_vars

\* C18 witness: a delta that does not carry the funding rate left the value
\* the ticker held.
C18_Witness ==
    /\ tmsg.type = "delta"
    /\ preTicker.fundingRate # None
    /\ tmsg.data.fundingRate = None
    /\ ticker.fundingRate = preTicker.fundingRate

(***************************************************************************)
(* Order-book claims, continued.                                           *)
(***************************************************************************)
\* the lists that carry the pairs of s in another order
Perms(s) ==
    { [i \in 1..Len(s) |-> s[q[i]]] :
        q \in { f \in [1..Len(s) -> 1..Len(s)] :
                  \A i, j \in 1..Len(s) : f[i] = f[j] => i = j } }

\* no price of a well-formed list is carried with two different sizes
NoConflict(entries) ==
    \A i, j \in 1..Len(entries) :
        float(entries[i][1]) = float(entries[j][1])
        => float(entries[i][2]) = float(entries[j][2])

\* the snapshot just handled leaves the same bids and asks with its lists in
\* any other order
SameInAnyOrder ==
    \A pb \in Perms(msg.b), pa \in Perms(msg.a) :
        LET r == _handle_snapshot(preBids, preAsks, [b |-> pb, a |-> pa])
        IN  r.raised = "none" /\ r.bids = bids /\ r.asks = asks

\* C15 as stated: a snapshot of well-formed pairs leaves the same mapping on
\* each side with the pairs of its lists in any order.
C15_AnyOrderSameMapping ==
    ( /\ msg.type = "snapshot"
      /\ WellFormed(msg.b)
      /\ WellFormed(msg.a) )
    => SameInAnyOrder

\* C15 as amended: it does when no list carries a price with two different
\* sizes; a snapshot that carries a malformed pair raises ValueError with its
\* lists in any order.
C15_AnyOrderSameMappingNoConflict ==
    /\ ( /\ msg.type = "snapshot"
         /\ WellFormed(msg.b)
         /\ WellFormed(msg.a)
         /\ NoConflict(msg.b)
         /\ NoConflict(msg.a) )
       => SameInAnyOrder
    /\ ( /\ msg.type = "snapshot"
         /\ ~(WellFormed(msg.b) /\ WellFormed(msg.a)) )
       => \A pb \in Perms(msg.b), pa \in Perms(msg.a) :
            _handle_snapshot(preBids, preAsks, [b |-> pb, a |-> pa]).raised
                = "ValueError"

\* C15 witness: a snapshot with two bids at different prices replaced bids
\* that held a level.
C15_Witness ==
    /\ msg.type = "snapshot"
    /\ raised = "none"
    /\ Len(msg.b) = 2
    /\ Cardinality(PricesOf(msg.b)) = 2
    /\ DOMAIN preBids # {}
    /\ Cardinality(DOMAIN bids) = 2

\* the number of levels of d that are at least as good as price p
RankBid(d, p) == Cardinality({ q \in DOMAIN d : q >= p })

RankAsk(d, p) == Cardinality({ q \in DOMAIN d : q <= p })

Lists(view, d, p) == \E i \in 1..Len(view) : view[i] = [price |-> p, size |-> d[p]]

\* C20: the view parse_orderbook_depth returns for a snapshot or delta it
\* handled is, for every levels, the view of the book after the message: a
\* level the message removed is not in it, and a level it inserted is in it
\* when it ranks within levels.
C20_ReturnsViewAfterEvent ==
    (msg.type \in {"snapshot", "delta"} /\ raised = "none")
    => \A n \in 0..MaxLevels :
        /\ ret[n] = _get_orderbook(bids, asks, n)
        /\ \A p \in DOMAIN preBids \ DOMAIN bids : p \notin ViewPrices(ret[n].bids)
        /\ \A p \in DOMAIN preAsks \ DOMAIN asks : p \notin ViewPrices(ret[n].asks)
        /\ \A p \in DOMAIN bids \ DOMAIN preBids :
              RankBid(bids, p) <= n => Lists(ret[n].bids, bids, p)
        /\ \A p \in DOMAIN asks \ DOMAIN preAsks :
              RankAsk(asks, p) <= n => Lists(ret[n].asks, asks, p)

\* C20 witness: a delta removed the best bid and inserted an ask, and the
\* view it returned is not the view of the book it found.
C20_Witness ==
    /\ msg.type = "delta"
    /\ raised = "none"
    /\ \E p \in DOMAIN preBids \ DOMAIN bids : RankBid(preBids, p) = 1
    /\ DOMAIN asks \ DOMAIN preAsks # {}
    /\ ret[1] # _get_orderbook(preBids, preAsks, 1)

(***************************************************************************)
(* The end-to-end scenario.                                                *)
(***************************************************************************)
Level(price, size) == [price |-> float(price), size |-> float(size)]

ScenarioSnapshot ==
    [type |-> "snapshot",
     b |-> << << <<"1", "0", "0">>, <<"5">> >>, << <<"9", "9">>, <<"3">> >> >>,
     a |-> << << <<"1", "0", "1">>, <<"2">> >> >>]

ScenarioDelta ==
    [type |-> "delta", b |-> << << <<"1", "0", "0">>, <<"0">> >> >>, a |-> <<>>]

\* the book the scenario's snapshot leaves
AfterScenarioSnapshot ==
    /\ preBids = _handle_snapshot(EmptyDict, EmptyDict, ScenarioSnapshot).bids
    /\ preAsks = _handle_snapshot(EmptyDict, EmptyDict, ScenarioSnapshot).asks

\* the message is a delta that removes the best bid of the book it finds and
\* lists nothing else
RemovesBestBid ==
    /\ msg.type = "delta"
    /\ msg.a = <<>>
    /\ Len(msg.b) = 1
    /\ WellFormed(msg.b)
    /\ float(msg.b[1][2]) = 0
    /\ float(msg.b[1][1]) \in DOMAIN preBids
    /\ RankBid(preBids, float(msg.b[1][1])) = 1

\* C16: on a new book the scenario's snapshot returns the view
\* bids=[(100,5)], asks=[(101,2)] at depth 1, and the scenario's delta after
\* it returns bids=[(99,3)], asks=[(101,2)]; a delta that removes the best
\* bid returns, at every depth, the bids that followed it and the asks as
\* they were.
C16_ScenarioAndBestBidRemoval ==
    /\ (nBook = 1 /\ msg = ScenarioSnapshot)
       => /\ raised = "none"
          /\ ret[1] = [bids |-> <<Level(<<"1", "0", "0">>, <<"5">>)>>,
                       asks |-> <<Level(<<"1", "0", "1">>, <<"2">>)>>]
    /\ (msg = ScenarioDelta /\ AfterScenarioSnapshot)
       => /\ raised = "none"
          /\ ret[1] = [bids |-> <<Level(<<"9", "9">>, <<"3">>)>>,
                       asks |-> <<Level(<<"1", "0", "1">>, <<"2">>)>>]
    /\ RemovesBestBid
       => /\ raised = "none"
          /\ \A n \in 0..MaxLevels :
                /\ ret[n].bids = Take(Tail(sortedReverse(preBids)), n)
                /\ ret[n].asks = _get_orderbook(preBids, preAsks, n).asks

\* C16 witness: the scenario's delta was handled after the scenario's
\* snapshot and the bid at 99 is the top of the view.
C16_Witness ==
    /\ nBook = 2
    /\ msg = ScenarioDelta
    /\ AfterScenarioSnapshot
    /\ ret[1].bids = <<Level(<<"9", "9">>, <<"3">>)>>

C17_ReadBeforeAnyMessage ==
    /\ (viewed.done /\ nBook = 0) => viewed.ret = [bids |-> <<>>, asks |-> <<>>]
    /\ (cur.done /\ tmsg = NoTickerMsg)
       => \A f \in FiveFields \cup {"symbol"} : Tracked(cur.ret, f) = None

\* C17 witness: both reads were made before any message, the view with the
\* largest levels.
C17_Witness ==
    /\ nBook = 0
    /\ tmsg = NoTickerMsg
    /\ viewed.done
    /\ viewed.levels = MaxLevels
    /\ cur.done

\* C19: a message whose type is neither "snapshot" nor "delta" raises
\* nothing and changes nothing: parse_orderbook_depth leaves bids and asks
\* as they were and returns, for every levels, the view of that book, and
\* parse_ticker leaves the ticker it returns as it was.
C19_OtherTypeChangesNothing ==
    /\ msg.type = "other"
       => /\ raised = "none"
          /\ Unchanged
          /\ \A n \in 0..MaxLevels : ret[n] = _get_orderbook(preBids, preAsks, n)
    /\ tmsg.type = "other" => ticker = preTicker

\* C19 witness: a message of another type carried a size of 0 for a bid the
\* book holds, and the view returned lists that bid.
C19_Witness ==
    /\ msg.type = "other"
    /\ Len(msg.b) = 1
    /\ WellFormed(msg.b)
    /\ float(msg.b[1][2]) = 0
    /\ float(msg.b[1][1]) \in DOMAIN preBids
    /\ Len(ret[1].bids) = 1
    /\ ret[1].bids[1].price = float(msg.b[1][1])

(***************************************************************************)
(* Balance claims.                                                         *)
(***************************************************************************)
\* the Decimal without the trailing zeros of its coefficient; zero is +0
Canon(d) ==
    IF d.int = <<0>> THEN [sign |-> 0, int |-> <<0>>, exp |-> 0]
    ELSE LET last == CHOOSE i \in 1..Len(d.int) :
                        d.int[i] # 0 /\ \A j \in (i + 1)..Len(d.int) : d.int[j] = 0
         IN  [sign |-> d.sign,
              int |-> SubSeq(d.int, 1, last),
              exp |-> d.exp + (Len(d.int) - last)]

\* x == y of two Decimals
NumEq(x, y) == Canon(x) = Canon(y)

IsNegative(d) == d.sign = 1 /\ d.int # <<0>>

\* a decimal string of the precision the exchange reports: at most 18 digits
\* before the point and at most 18 after it
WithinPrecision(s) ==
    /\ IsDecimal(s)
    /\ Len(IntPart(Unsigned(s))) <= 18
    /\ Len(FracPart(Unsigned(s))) <= 18

\* "100.123456789012345678", "0.000000000000000001" and
\* "100.123456789012345677"
ExampleWallet ==
    <<"1", "0", "0", ".", "1", "2", "3", "4", "5", "6", "7", "8",
      "9", "0", "1", "2", "3", "4", "5", "6", "7", "8">>

ExampleLocked ==
    <<"0", ".", "0", "0", "0", "0", "0", "0", "0", "0", "0", "0",
      "0", "0", "0", "0", "0", "0", "0", "1">>

ExampleFree ==
    <<"1", "0", "0", ".", "1", "2", "3", "4", "5", "6", "7", "8",
      "9", "0", "1", "2", "3", "4", "5", "6", "7", "7">>

\* C13: for every asset and every walletBalance and locked of bounded
\* precision, either parser returns a Balance with the asset of the input,
\* locked as parsed and free = walletBalance - locked exactly, so that
\* free + locked = walletBalance with no rounding; walletBalance
\* 100.123456789012345678 and locked 0.000000000000000001 give free
\* 100.123456789012345677; the two parsers return the same Balance.
C13_NormalizeExact ==
    ( /\ balance.by # "none"
      /\ WithinPrecision(coin.walletBalance)
      /\ WithinPrecision(coin.locked) )
    => /\ balance.out.raised = "none"
       /\ balance.out.asset = coin.coin
       /\ balance.out.locked = Decimal(coin.locked)
       /\ NumEq(balance.out.free,
                ExactAdd(Decimal(coin.walletBalance), Negate(Decimal(coin.locked))))
       /\ NumEq(ExactAdd(balance.out.free, balance.out.locked),
                Decimal(coin.walletBalance))
       /\ (coin.walletBalance = ExampleWallet /\ coin.locked = ExampleLocked)
          => NumEq(balance.out.free, Decimal(ExampleFree))
       /\ BybitCoinBalance_parse_to_balance(coin)
            = BybitWsAccountWalletCoin_parse_to_balance(coin)

\* C14: every Balance either parser returns has locked >= 0.
C14_LockedNonNegative ==
    (balance.by # "none" /\ balance.out.raised = "none")
    => ~IsNegative(balance.out.locked)

====
